---- MODULE Spec2Model ----
(***************************************************************************)
(* Server.py: a TCP server thread (tcp_server_thread) that accepts one     *)
(* STM32 device at a time and merges its JSON frames into latest_data,     *)
(* broadcasting every change with socketio.emit; a Flask handler           *)
(* (send_command) that writes a JSON command to the device socket; and a   *)
(* SocketIO connect handler (test_connect).                                *)
(*                                                                         *)
(* Python values are modelled as follows.  Every value stored in           *)
(* latest_data is a string.  A socket object is a string naming it, and    *)
(* None is the string "None".  Text is a sequence of one-character         *)
(* strings, bytes a sequence of code points.                               *)
(***************************************************************************)
EXTENDS Integers, Sequences, FiniteSets, TLC

VARIABLES
    latest_data,          \* the global dict latest_data
    stm32_client_socket,  \* the global socket handle, or None
    pc,                   \* position of tcp_server_thread
    conn,                 \* tcp_server_thread's local conn
    addr,                 \* tcp_server_thread's local addr[0]
    data,                 \* what conn.recv(1024) produced in this iteration
    open,                 \* accepted device sockets that are not closed
    emitted,              \* payload of the last socketio.emit broadcast
    req_pc,               \* position of the send_command handler
    req_body,             \* request.json of the request being handled
    command_data,         \* send_command's local command_data (text)
    sock_seen,            \* what the handler last read from stm32_client_socket
    sent,                 \* socket writes made by the request being handled
    response,             \* how the request being handled ended
    merged,               \* history: the fields each update() call applied
    unpublished,          \* history: latest_data mutations since the last emit
    prev_status,          \* history: status of the broadcast before the last
    had_session,          \* history: some connection has been accepted
    delivered,            \* events test_connect emitted to the last new client
    streamed,             \* history: the messages the devices have sent whole
    pending               \* history: the message whose first part was read

vars == <<latest_data, stm32_client_socket, pc, conn, addr, data, open, emitted,
          req_pc, req_body, command_data, sock_seen, sent, response,
          merged, unpublished, prev_status, had_session,
          delivered, streamed, pending>>

tcp_vars == <<pc, conn, addr, data, open>>
req_vars == <<req_pc, req_body, command_data, sock_seen, sent, response>>
stream_vars == <<streamed, pending>>

-----------------------------------------------------------------------------
(* Bounds of the model *)

MaxMerged == 2        \* update() calls recorded in the history

-----------------------------------------------------------------------------
(* Values *)

None == "None"
Socks == {"sock1", "sock2"}
Addrs == {"192.168.4.2", "192.168.4.3"}

\* The socket object s.accept() returns is a new one: it is none of the
\* open ones and not the one conn still names
FreshSocks(op, last) ==
    IF Socks \ (op \cup {last}) = Socks
    THEN {CHOOSE c \in Socks : TRUE}
    ELSE Socks \ (op \cup {last})

AwaitingDevice == "AwaitingDevice"          \* "等待设备连接..."
Receiving == "Receiving"                    \* "数据正常接收"
Disconnected == "Disconnected"              \* "设备已断开连接"
Connected(a) == "Connected:" \o a           \* f"设备已连接: {addr[0]}"
StartupFailed(e) == "StartupFailed:" \o e   \* f"启动失败: {e}"
BindErrors == {"EADDRINUSE"}

latest_data_initial ==
    [DC |-> "0.0", Amp |-> "0.0", Freq |-> "0.0", time |-> "0",
     status |-> AwaitingDevice]

NoEmit == [none |-> "none"]      \* nothing has been broadcast
NoStatus == "none"               \* fewer than two broadcasts have been made

-----------------------------------------------------------------------------
(* dict.update and dict item assignment *)

\* d[k] = v
SetItem(d, k, v) == [x \in DOMAIN d \cup {k} |-> IF x = k THEN v ELSE d[x]]

\* d.update(m) for a dict m
Update_Mut(d, m) == m
Update(d, m) ==
    [k \in DOMAIN d \cup DOMAIN m |-> IF k \in DOMAIN m THEN m[k] ELSE d[k]]

\* An element of a JSON array handed to dict.update: a two-element list
\* [k, v] is inserted, anything else raises.
Pair(k, v) == [pair |-> TRUE, k |-> k, v |-> v]
NotAPair == [pair |-> FALSE, k |-> "", v |-> ""]

\* The longest prefix of items that dict.update inserts before it raises
RECURSIVE PairsPrefix(_)
PairsPrefix(items) ==
    IF items = <<>> \/ ~items[1].pair THEN <<>>
    ELSE <<items[1]>> \o PairsPrefix(Tail(items))

RECURSIVE PairsToDict(_)
PairsToDict(items) ==
    IF items = <<>> THEN [k \in {} |-> ""]
    ELSE LET rest == PairsToDict(SubSeq(items, 1, Len(items) - 1))
             last == items[Len(items)]
         IN  SetItem(rest, last.k, last.v)

EmptyDict == PairsToDict(<<>>)

-----------------------------------------------------------------------------
(* What conn.recv(1024) followed by .decode('utf-8') can produce *)

Eof == [kind |-> "eof", fields |-> EmptyDict, items |-> <<>>]
ResetError == [kind |-> "reset", fields |-> EmptyDict, items |-> <<>>]
BadUtf8 == [kind |-> "badutf8", fields |-> EmptyDict, items |-> <<>>]
\* text that json.loads rejects, such as {bad
BadJson == [kind |-> "badjson", fields |-> EmptyDict, items |-> <<>>]
\* text of a JSON number, true, false or null
Scalar == [kind |-> "scalar", fields |-> EmptyDict, items |-> <<>>]
Object(f) == [kind |-> "object", fields |-> f, items |-> <<>>]
Array(s) == [kind |-> "array", fields |-> EmptyDict, items |-> s]
NoData == [kind |-> "nodata", fields |-> EmptyDict, items |-> <<>>]

Objects ==
    { Object([DC |-> "3.3"]),
      Object([DC |-> "1.5", temp |-> "20"]),
      Object([status |-> "dev", temp |-> "21"]) }

Arrays ==
    { Array(<<Pair("temp", "22"), NotAPair>>) }

Chunks == {Eof, ResetError, BadUtf8, BadJson, Scalar} \cup Objects \cup Arrays

\* A read that ends inside a message, the read that returns the rest of
\* that message, and a read that returns two messages at once.  json.loads
\* rejects the text of each: an object cut short, text that starts inside
\* an object, and an object followed by more text.
FirstPart(f) == [kind |-> "head", fields |-> f, items |-> <<>>]
RestPart(f) == [kind |-> "tail", fields |-> f, items |-> <<>>]
TwoInOne(b) == [kind |-> "batch", fields |-> EmptyDict, items |-> b]

SplitObjects == { [DC |-> "3.3"] }
Batches == { <<[DC |-> "3.3"], [DC |-> "1.5", temp |-> "20"]>> }

\* No message is partly read
NoPending == EmptyDict

\* What latest_data.update applies when the message of chunk is read whole
\* and alone: the fields of an object, the leading pairs of an array
Merges(chunk) ==
    CASE chunk.kind = "object" -> <<chunk.fields>>
      [] chunk.kind = "array" -> <<PairsToDict(PairsPrefix(chunk.items))>>
      [] OTHER -> <<>>

-----------------------------------------------------------------------------
(* Text, int(), json.dumps and str.encode as send_command uses them *)

\* The printable ASCII characters of code points 32 to 95 and 97 to 126,
\* in order
AsciiTo95 ==
    <<" ", "!", "\"", "#", "$", "%", "&", "'", "(", ")", "*", "+", ",", "-",
      ".", "/", "0", "1", "2", "3", "4", "5", "6", "7", "8", "9", ":", ";",
      "<", "=", ">", "?", "@", "A", "B", "C", "D", "E", "F", "G", "H", "I",
      "J", "K", "L", "M", "N", "O", "P", "Q", "R", "S", "T", "U", "V", "W",
      "X", "Y", "Z", "[", "\\", "]", "^", "_">>
AsciiFrom97 ==
    <<"a", "b", "c", "d", "e", "f", "g", "h", "i", "j", "k", "l", "m", "n",
      "o", "p", "q", "r", "s", "t", "u", "v", "w", "x", "y", "z", "{", "|",
      "}", "~">>

Ord(c) ==
    IF \E i \in 1..Len(AsciiTo95) : AsciiTo95[i] = c
    THEN 31 + (CHOOSE i \in 1..Len(AsciiTo95) : AsciiTo95[i] = c)
    ELSE 96 + (CHOOSE i \in 1..Len(AsciiFrom97) : AsciiFrom97[i] = c)
Chr(b) == IF b < 96 THEN AsciiTo95[b - 31] ELSE AsciiFrom97[b - 96]

\* text.encode('utf-8') of ASCII text
Encode(text) == [i \in 1..Len(text) |-> Ord(text[i])]

Digits == <<"0", "1", "2", "3", "4", "5", "6", "7", "8", "9">>
IsDigit(c) == \E i \in 1..10 : Digits[i] = c
DigitVal(c) == (CHOOSE i \in 1..10 : Digits[i] = c) - 1

\* Values of a JSON request body
IntV(n) == [t |-> "int", n |-> n, s |-> <<>>]
StrV(s) == [t |-> "str", n |-> 0, s |-> s]
NullV == [t |-> "null", n |-> 0, s |-> <<>>]

Raised == [ok |-> FALSE, n |-> 0]
Returned(n) == [ok |-> TRUE, n |-> n]

RECURSIVE DigitsValue(_, _)
DigitsValue(s, acc) ==
    IF s = <<>> THEN acc
    ELSE DigitsValue(Tail(s), 10 * acc + DigitVal(s[1]))

AllDigits(s) == s # <<>> /\ \A i \in 1..Len(s) : IsDigit(s[i])

\* int(v): an int is returned as it is, a str is parsed as an optionally
\* signed decimal (ValueError otherwise), None raises TypeError
py_int(v) ==
    CASE v.t = "int" -> Returned(v.n)
      [] v.t = "str" ->
            IF AllDigits(v.s) THEN Returned(DigitsValue(v.s, 0))
            ELSE IF v.s # <<>> /\ v.s[1] = "-" /\ AllDigits(Tail(v.s))
                 THEN Returned(0 - DigitsValue(Tail(v.s), 0))
            ELSE IF v.s # <<>> /\ v.s[1] = "+" /\ AllDigits(Tail(v.s))
                 THEN Returned(DigitsValue(Tail(v.s), 0))
            ELSE Raised
      [] OTHER -> Raised

\* The decimal text json.dumps writes for an int
RECURSIVE NatText(_)
NatText(n) ==
    IF n < 10 THEN <<Digits[n + 1]>>
    ELSE NatText(n \div 10) \o <<Digits[(n % 10) + 1]>>

IntText(n) == IF n < 0 THEN <<"-">> \o NatText(0 - n) ELSE NatText(n)

\* json.dumps({"cmd": "config", "rate": rate, "cycles": cycles})
json_dumps_command_Mut(rate, cycles) ==
    <<"{", "\"", "c", "m", "d", "\"", ":", " ",
      "\"", "c", "o", "n", "f", "i", "g", "\"", ",", " ",
      "\"", "r", "a", "t", "e", "\"", ":", " ">> \o IntText(cycles) \o
    <<",", " ", "\"", "c", "y", "c", "l", "e", "s", "\"", ":", " ">> \o
    IntText(rate) \o <<"}">>
json_dumps_command(rate, cycles) ==
    <<"{", "\"", "c", "m", "d", "\"", ":", " ",
      "\"", "c", "o", "n", "f", "i", "g", "\"", ",", " ",
      "\"", "r", "a", "t", "e", "\"", ":", " ">> \o IntText(rate) \o
    <<",", " ", "\"", "c", "y", "c", "l", "e", "s", "\"", ":", " ">> \o
    IntText(cycles) \o <<"}">>

\* request.json: a JSON object, or JSON of another type
JsonObject(f) == [kind |-> "object", fields |-> f]
JsonNonObject == [kind |-> "array", fields |-> EmptyDict]
NoRequest == [kind |-> "none", fields |-> EmptyDict]

Bodies ==
    { JsonObject([rate |-> IntV(10), cycles |-> IntV(5)]),
      JsonObject([rate |-> IntV(3), cycles |-> IntV(120)]),
      JsonObject([rate |-> IntV(0 - 1), cycles |-> IntV(5)]),
      JsonObject([cycles |-> IntV(12)]),
      JsonObject([rate |-> StrV(<<"a", "b", "c">>), cycles |-> IntV(5)]),
      JsonNonObject }

\* data.get(key, 0)
Get(fields, key) == IF key \in DOMAIN fields THEN fields[key] ELSE IntV(0)

\* lines 110-119: the text of the command, or an exception.  data.get
\* raises AttributeError when request.json is not a dict.
BuildCommand(body) ==
    IF body.kind # "object" THEN [ok |-> FALSE, text |-> <<>>]
    ELSE LET rate == py_int(Get(body.fields, "rate"))
             cycles == py_int(Get(body.fields, "cycles"))
         IN  IF rate.ok /\ cycles.ok
             THEN [ok |-> TRUE, text |-> json_dumps_command(rate.n, cycles.n)]
             ELSE [ok |-> FALSE, text |-> <<>>]

-----------------------------------------------------------------------------
(* History bookkeeping shared by the actions of tcp_server_thread *)


\* socketio.emit('update_data', latest_data): the payload is the dict as it
\* is when emit is called
socketio_emit ==
    /\ emitted' = latest_data
    /\ unpublished' = 0
    /\ prev_status' = IF emitted = NoEmit THEN NoStatus ELSE emitted["status"]

\* latest_data["status"] = s
SetStatus(s) ==
    /\ latest_data' = SetItem(latest_data, "status", s)
    /\ unpublished' = unpublished + 1

-----------------------------------------------------------------------------
(* tcp_server_thread *)

Init ==
    /\ latest_data = latest_data_initial
    /\ stm32_client_socket = None
    /\ pc = "bind"
    /\ conn = None
    /\ addr = None
    /\ data = NoData
    /\ open = {}
    /\ emitted = NoEmit
    /\ req_pc = "idle"
    /\ req_body = NoRequest
    /\ command_data = <<>>
    /\ sock_seen = None
    /\ sent = <<>>
    /\ response = "none"
    /\ merged = <<>>
    /\ unpublished = 0
    /\ prev_status = NoStatus
    /\ had_session = FALSE
    /\ delivered = <<>>
    /\ streamed = <<>>
    /\ pending = NoPending

\* lines 36-39: bind and listen succeed
Bind_Ok ==
    /\ pc = "bind"
    /\ SetStatus(AwaitingDevice)
    /\ pc' = "emit_listening"
    /\ UNCHANGED <<stm32_client_socket, conn, addr, data, open, emitted,
                   prev_status, merged, had_session>>
    /\ UNCHANGED <<req_vars, delivered, stream_vars>>

\* lines 36, 41-43: bind or listen raises
Bind_Fail ==
    /\ pc = "bind"
    /\ \E e \in BindErrors : SetStatus(StartupFailed(e))
    /\ pc' = "emit_failed"
    /\ UNCHANGED <<stm32_client_socket, conn, addr, data, open, emitted,
                   prev_status, merged, had_session>>
    /\ UNCHANGED <<req_vars, delivered, stream_vars>>

\* line 40
Emit_Listening ==
    /\ pc = "emit_listening"
    /\ socketio_emit
    /\ pc' = "accept"
    /\ UNCHANGED <<latest_data, stm32_client_socket, conn, addr, data, open,
                   merged, had_session>>
    /\ UNCHANGED <<req_vars, delivered, stream_vars>>

\* lines 44-45: emit, then return; the thread ends
Emit_Failed_Mut ==
    /\ pc = "emit_failed"
    /\ socketio_emit
    /\ pc' = "accept"
    /\ UNCHANGED <<latest_data, stm32_client_socket, conn, addr, data, open,
                   merged, had_session>>
    /\ UNCHANGED <<req_vars, delivered, stream_vars>>
Emit_Failed ==
    /\ pc = "emit_failed"
    /\ socketio_emit
    /\ pc' = "done"
    /\ UNCHANGED <<latest_data, stm32_client_socket, conn, addr, data, open,
                   merged, had_session>>
    /\ UNCHANGED <<req_vars, delivered, stream_vars>>

\* line 48: conn, addr = s.accept()
Accept ==
    /\ pc = "accept"
    /\ \E c \in FreshSocks(open, conn), a \in Addrs :
          /\ conn' = c
          /\ addr' = a
          /\ open' = open \cup {c}
    /\ had_session' = TRUE
    /\ pc' = "store"
    /\ UNCHANGED <<data, latest_data, stm32_client_socket, emitted, merged,
                   unpublished, prev_status>>
    /\ UNCHANGED <<req_vars, delivered, stream_vars>>

\* line 49: stm32_client_socket = conn
Store_Socket ==
    /\ pc = "store"
    /\ stm32_client_socket' = conn
    /\ pc' = "set_connected"
    /\ UNCHANGED <<latest_data, conn, addr, data, open, emitted, merged,
                   unpublished, prev_status, had_session>>
    /\ UNCHANGED <<req_vars, delivered, stream_vars>>

\* line 51
Set_Connected ==
    /\ pc = "set_connected"
    /\ SetStatus(Connected(addr))
    /\ pc' = "emit_connected"
    /\ UNCHANGED <<stm32_client_socket, conn, addr, data, open, emitted,
                   prev_status, merged, had_session>>
    /\ UNCHANGED <<req_vars, delivered, stream_vars>>

\* line 52
Emit_Connected_Mut ==
    /\ pc = "emit_connected"
    /\ pc' = "recv"
    /\ UNCHANGED <<latest_data, stm32_client_socket, conn, addr, data, open,
                   emitted, unpublished, prev_status, merged, had_session>>
    /\ UNCHANGED <<req_vars, delivered, stream_vars>>
Emit_Connected ==
    /\ pc = "emit_connected"
    /\ socketio_emit
    /\ pc' = "recv"
    /\ UNCHANGED <<latest_data, stm32_client_socket, conn, addr, data, open,
                   merged, had_session>>
    /\ UNCHANGED <<req_vars, delivered, stream_vars>>

\* lines 59-61, 81-85: data = conn.recv(1024).decode('utf-8').  An empty
\* read breaks out of the loop; so does an exception raised by recv or by
\* decode.
Recv ==
    /\ pc = "recv"
    /\ \E chunk \in Chunks :
          /\ chunk.kind \in {"object", "array"} =>
                (Len(merged) < MaxMerged /\ Len(streamed) < MaxMerged)
          /\ pending # NoPending => chunk.kind \in {"eof", "reset"}
          /\ data' = chunk
          /\ streamed' = streamed \o Merges(chunk)
          /\ pc' = IF chunk.kind \in {"eof", "reset", "badutf8"}
                   THEN "exit_conn" ELSE "loads"
    /\ pending' = NoPending
    /\ UNCHANGED <<latest_data, stm32_client_socket, conn, addr, open, emitted,
                   merged, unpublished, prev_status, had_session>>
    /\ UNCHANGED <<req_vars, delivered>>

\* line 59: TCP is a byte stream, and one recv(1024) returns whatever has
\* arrived: the first part of a message, the rest of it, or two messages
\* together.  To the thread each of these is text that json.loads rejects,
\* as BadJson is; this action also records what the device sent.
Recv_Part ==
    /\ pc = "recv"
    /\ \/ /\ pending = NoPending
          /\ Len(streamed) < MaxMerged
          /\ \E f \in SplitObjects :
                /\ data' = FirstPart(f)
                /\ pending' = f
                /\ streamed' = streamed
       \/ /\ pending # NoPending
          /\ data' = RestPart(pending)
          /\ pending' = NoPending
          /\ streamed' = Append(streamed, pending)
       \/ /\ pending = NoPending
          /\ Len(streamed) + 2 <= MaxMerged
          /\ \E b \in Batches :
                /\ data' = TwoInOne(b)
                /\ streamed' = streamed \o b
          /\ pending' = NoPending
    /\ pc' = "loads"
    /\ UNCHANGED <<latest_data, stm32_client_socket, conn, addr, open, emitted,
                   merged, unpublished, prev_status, had_session>>
    /\ UNCHANGED <<req_vars, delivered>>

\* lines 64-69, 78-79: json.loads raises JSONDecodeError; the loop goes on
Loads_JSONDecodeError ==
    /\ pc = "loads"
    /\ data.kind \in {"badjson", "head", "tail", "batch"}
    /\ data' = NoData
    /\ pc' = "recv"
    /\ UNCHANGED <<latest_data, stm32_client_socket, conn, addr, open,
                   emitted, merged, unpublished, prev_status, had_session>>
    /\ UNCHANGED <<req_vars, delivered, stream_vars>>

\* lines 69-72: json.loads returns a dict, latest_data.update(dict)
Loads_Update_Dict ==
    /\ pc = "loads"
    /\ data.kind = "object"
    /\ latest_data' = Update(latest_data, data.fields)
    /\ merged' = Append(merged, data.fields)
    /\ unpublished' = unpublished + 1
    /\ pc' = "set_receiving"
    /\ UNCHANGED <<stm32_client_socket, conn, addr, data, open, emitted,
                   prev_status, had_session>>
    /\ UNCHANGED <<req_vars, delivered, stream_vars>>

\* lines 69-72, 83-85: json.loads returns a list; latest_data.update(list)
\* inserts the leading [k, v] elements and raises at the first element that
\* is not one, which breaks out of the loop
Loads_Update_List ==
    /\ pc = "loads"
    /\ data.kind = "array"
    /\ LET prefix == PairsPrefix(data.items)
           applied == PairsToDict(prefix)
           raised == Len(prefix) < Len(data.items)
       IN  /\ latest_data' = Update(latest_data, applied)
           /\ merged' = Append(merged, applied)
           /\ unpublished' = IF raised /\ prefix = <<>> THEN unpublished
                             ELSE unpublished + 1
           /\ pc' = IF raised THEN "exit_conn" ELSE "set_receiving"
    /\ UNCHANGED <<stm32_client_socket, conn, addr, data, open, emitted,
                   prev_status, had_session>>
    /\ UNCHANGED <<req_vars, delivered, stream_vars>>

\* lines 69-72, 83-85: json.loads returns a number, a bool or None;
\* latest_data.update raises TypeError, which breaks out of the loop
Loads_Update_Scalar ==
    /\ pc = "loads"
    /\ data.kind = "scalar"
    /\ pc' = "exit_conn"
    /\ UNCHANGED <<latest_data, stm32_client_socket, conn, addr, data, open,
                   emitted, merged, unpublished, prev_status, had_session>>
    /\ UNCHANGED <<req_vars, delivered, stream_vars>>

\* line 73; with the update of line 72 it is one change of latest_data
Set_Receiving_Mut ==
    /\ pc = "set_receiving"
    /\ pc' = "emit_receiving"
    /\ UNCHANGED <<latest_data, stm32_client_socket, conn, addr, data, open,
                   emitted, merged, unpublished, prev_status, had_session>>
    /\ UNCHANGED <<req_vars, delivered, stream_vars>>
Set_Receiving ==
    /\ pc = "set_receiving"
    /\ latest_data' = SetItem(latest_data, "status", Receiving)
    /\ pc' = "emit_receiving"
    /\ UNCHANGED <<stm32_client_socket, conn, addr, data, open, emitted,
                   merged, unpublished, prev_status, had_session>>
    /\ UNCHANGED <<req_vars, delivered, stream_vars>>

\* line 76
Emit_Receiving ==
    /\ pc = "emit_receiving"
    /\ socketio_emit
    /\ data' = NoData
    /\ pc' = "recv"
    /\ UNCHANGED <<latest_data, stm32_client_socket, conn, addr, open,
                   merged, had_session>>
    /\ UNCHANGED <<req_vars, delivered, stream_vars>>

\* line 54, left at line 86: "with conn" closes the socket.  The locals
\* data and addr are not read again before they are assigned again.
Exit_Conn_Mut ==
    /\ pc = "exit_conn"
    /\ open' = open
    /\ data' = NoData
    /\ addr' = None
    /\ pc' = "clear_socket"
    /\ UNCHANGED <<latest_data, stm32_client_socket, conn, emitted,
                   merged, unpublished, prev_status, had_session>>
    /\ UNCHANGED <<req_vars, delivered, stream_vars>>
Exit_Conn ==
    /\ pc = "exit_conn"
    /\ open' = open \ {conn}
    /\ data' = NoData
    /\ addr' = None
    /\ pc' = "clear_socket"
    /\ UNCHANGED <<latest_data, stm32_client_socket, conn, emitted,
                   merged, unpublished, prev_status, had_session>>
    /\ UNCHANGED <<req_vars, delivered, stream_vars>>

\* line 89
Clear_Socket_Mut ==
    /\ pc = "clear_socket"
    /\ pc' = "set_disconnected"
    /\ UNCHANGED <<latest_data, stm32_client_socket, conn, addr, data, open,
                   emitted, merged, unpublished, prev_status, had_session>>
    /\ UNCHANGED <<req_vars, delivered, stream_vars>>
Clear_Socket ==
    /\ pc = "clear_socket"
    /\ stm32_client_socket' = None
    /\ pc' = "set_disconnected"
    /\ UNCHANGED <<latest_data, conn, addr, data, open, emitted, merged,
                   unpublished, prev_status, had_session>>
    /\ UNCHANGED <<req_vars, delivered, stream_vars>>

\* line 90
Set_Disconnected_Mut ==
    /\ pc = "set_disconnected"
    /\ SetStatus(AwaitingDevice)
    /\ pc' = "emit_disconnected"
    /\ UNCHANGED <<stm32_client_socket, conn, addr, data, open, emitted,
                   prev_status, merged, had_session>>
    /\ UNCHANGED <<req_vars, delivered, stream_vars>>
Set_Disconnected ==
    /\ pc = "set_disconnected"
    /\ SetStatus(Disconnected)
    /\ pc' = "emit_disconnected"
    /\ UNCHANGED <<stm32_client_socket, conn, addr, data, open, emitted,
                   prev_status, merged, had_session>>
    /\ UNCHANGED <<req_vars, delivered, stream_vars>>

\* line 91, then back to line 48
Emit_Disconnected_Mut ==
    /\ pc = "emit_disconnected"
    /\ socketio_emit
    /\ pc' = "done"
    /\ UNCHANGED <<latest_data, stm32_client_socket, conn, addr, data, open,
                   merged, had_session>>
    /\ UNCHANGED <<req_vars, delivered, stream_vars>>
Emit_Disconnected ==
    /\ pc = "emit_disconnected"
    /\ socketio_emit
    /\ pc' = "accept"
    /\ UNCHANGED <<latest_data, stm32_client_socket, conn, addr, data, open,
                   merged, had_session>>
    /\ UNCHANGED <<req_vars, delivered, stream_vars>>

tcp_server_thread ==
    \/ Bind_Ok
    \/ Bind_Fail
    \/ Emit_Listening
    \/ Emit_Failed
    \/ Accept
    \/ Store_Socket
    \/ Set_Connected
    \/ Emit_Connected
    \/ Recv
    \/ Loads_JSONDecodeError
    \/ Loads_Update_Dict
    \/ Loads_Update_List
    \/ Loads_Update_Scalar
    \/ Set_Receiving
    \/ Emit_Receiving
    \/ Exit_Conn
    \/ Clear_Socket
    \/ Set_Disconnected
    \/ Emit_Disconnected

-----------------------------------------------------------------------------
(* send_command: one request handler thread *)

\* How a request ends
Ack == "Ack"                          \* 200, status success
NotConnected == "NotConnected"        \* 400, line 107
TransportError == "TransportError"    \* 500, line 142
UnhandledException == "UnhandledException"  \* an exception leaves the view

\* lines 106-107: a request arrives and stm32_client_socket is None
Request_NotConnected ==
    /\ req_pc = "idle"
    /\ stm32_client_socket = None
    /\ \E b \in Bodies : req_body' = b
    /\ sock_seen' = stm32_client_socket
    /\ sent' = <<>>
    /\ command_data' = <<>>
    /\ response' = NotConnected
    /\ req_pc' = "idle"
    /\ UNCHANGED <<latest_data, stm32_client_socket, emitted, merged,
                   unpublished, prev_status, had_session>>
    /\ UNCHANGED <<tcp_vars, delivered, stream_vars>>

\* lines 106, 110-122: a request arrives, stm32_client_socket is not None,
\* and the command text is built
Request_Build ==
    /\ req_pc = "idle"
    /\ stm32_client_socket # None
    /\ \E b \in Bodies :
          /\ BuildCommand(b).ok
          /\ req_body' = b
          /\ command_data' = BuildCommand(b).text
    /\ sock_seen' = stm32_client_socket
    /\ sent' = <<>>
    /\ response' = "none"
    /\ req_pc' = "sendall"
    /\ UNCHANGED <<latest_data, stm32_client_socket, emitted, merged,
                   unpublished, prev_status, had_session>>
    /\ UNCHANGED <<tcp_vars, delivered, stream_vars>>

\* lines 106, 110-119: a request arrives, stm32_client_socket is not None,
\* and data.get or int() raises outside the try block
Request_Raises ==
    /\ req_pc = "idle"
    /\ stm32_client_socket # None
    /\ \E b \in Bodies :
          /\ ~BuildCommand(b).ok
          /\ req_body' = b
    /\ sock_seen' = stm32_client_socket
    /\ sent' = <<>>
    /\ command_data' = <<>>
    /\ response' = UnhandledException
    /\ req_pc' = "idle"
    /\ UNCHANGED <<latest_data, stm32_client_socket, emitted, merged,
                   unpublished, prev_status, had_session>>
    /\ UNCHANGED <<tcp_vars, delivered, stream_vars>>

Write(sock, bytes, ok) == [sock |-> sock, bytes |-> bytes, ok |-> ok]

\* lines 137-139: sendall on the open socket writes every byte
Sendall_Ok ==
    /\ req_pc = "sendall"
    /\ stm32_client_socket \in open
    /\ sock_seen' = stm32_client_socket
    /\ sent' = Append(sent, Write(stm32_client_socket, Encode(command_data), TRUE))
    /\ response' = Ack
    /\ command_data' = <<>>
    /\ req_pc' = "idle"
    /\ UNCHANGED <<latest_data, stm32_client_socket, emitted, merged,
                   unpublished, prev_status, had_session, req_body>>
    /\ UNCHANGED <<tcp_vars, delivered, stream_vars>>

\* lines 137, 140-142: sendall on the open socket raises (the peer is gone)
Sendall_Raises_Mut ==
    /\ req_pc = "sendall"
    /\ stm32_client_socket \in open
    /\ sock_seen' = stm32_client_socket
    /\ sent' = Append(sent, Write(stm32_client_socket, Encode(command_data), FALSE))
    /\ response' = TransportError
    /\ command_data' = <<>>
    /\ req_pc' = "idle"
    /\ stm32_client_socket' = None
    /\ UNCHANGED <<latest_data, emitted, merged,
                   unpublished, prev_status, had_session, req_body>>
    /\ UNCHANGED <<tcp_vars, delivered, stream_vars>>
Sendall_Raises ==
    /\ req_pc = "sendall"
    /\ stm32_client_socket \in open
    /\ sock_seen' = stm32_client_socket
    /\ sent' = Append(sent, Write(stm32_client_socket, Encode(command_data), FALSE))
    /\ response' = TransportError
    /\ command_data' = <<>>
    /\ req_pc' = "idle"
    /\ UNCHANGED <<latest_data, stm32_client_socket, emitted, merged,
                   unpublished, prev_status, had_session, req_body>>
    /\ UNCHANGED <<tcp_vars, delivered, stream_vars>>

\* lines 137, 140-142: the socket was closed by "with conn" and
\* stm32_client_socket still names it; sendall raises OSError
Sendall_Closed ==
    /\ req_pc = "sendall"
    /\ stm32_client_socket # None
    /\ stm32_client_socket \notin open
    /\ sock_seen' = stm32_client_socket
    /\ sent' = Append(sent, Write(stm32_client_socket, Encode(command_data), FALSE))
    /\ response' = TransportError
    /\ command_data' = <<>>
    /\ req_pc' = "idle"
    /\ UNCHANGED <<latest_data, stm32_client_socket, emitted, merged,
                   unpublished, prev_status, had_session, req_body>>
    /\ UNCHANGED <<tcp_vars, delivered, stream_vars>>

\* lines 137, 140-142: stm32_client_socket has become None since line 106;
\* None.sendall raises AttributeError, which the except clause catches
Sendall_None ==
    /\ req_pc = "sendall"
    /\ stm32_client_socket = None
    /\ sock_seen' = stm32_client_socket
    /\ response' = TransportError
    /\ command_data' = <<>>
    /\ req_pc' = "idle"
    /\ UNCHANGED <<latest_data, stm32_client_socket, emitted, merged,
                   unpublished, prev_status, had_session, req_body,
                   sent>>
    /\ UNCHANGED <<tcp_vars, delivered, stream_vars>>

send_command ==
    \/ Request_NotConnected
    \/ Request_Build
    \/ Request_Raises
    \/ Sendall_Ok
    \/ Sendall_Raises
    \/ Sendall_Closed
    \/ Sendall_None

-----------------------------------------------------------------------------

(* test_connect: the SocketIO connect handler *)

\* lines 146-150: emit('update_data', latest_data) to the client that has
\* just connected
test_connect_Mut ==
    /\ delivered' = <<latest_data, latest_data>>
    /\ UNCHANGED <<latest_data, stm32_client_socket, emitted, merged,
                   unpublished, prev_status, had_session>>
    /\ UNCHANGED <<tcp_vars, req_vars, stream_vars>>
test_connect ==
    /\ delivered' = <<latest_data>>
    /\ UNCHANGED <<latest_data, stm32_client_socket, emitted, merged,
                   unpublished, prev_status, had_session>>
    /\ UNCHANGED <<tcp_vars, req_vars, stream_vars>>

-----------------------------------------------------------------------------

\* tcp_server_thread and one request at a time
Next == tcp_server_thread \/ send_command

Spec == Init /\ [][Next]_vars

\* tcp_server_thread and the clients that connect.  test_connect and
\* send_command write no variable that the other reads, so each is taken
\* with tcp_server_thread alone.
NextViewer == tcp_server_thread \/ test_connect

ViewerSpec == Init /\ [][NextViewer]_vars

\* tcp_server_thread with reads that do not end where a message ends
NextStream == tcp_server_thread \/ Recv_Part

StreamSpec == Init /\ [][NextStream]_vars

\* The steps of tcp_server_thread that do not wait for the device: the
\* thread is scheduled, so each of them is eventually taken.  Accept and
\* Recv block until the device acts and carry no fairness.
tcp_server_thread_running ==
    \/ Bind_Ok
    \/ Bind_Fail
    \/ Emit_Listening
    \/ Emit_Failed
    \/ Store_Socket
    \/ Set_Connected
    \/ Emit_Connected
    \/ Loads_JSONDecodeError
    \/ Loads_Update_Dict
    \/ Loads_Update_List
    \/ Loads_Update_Scalar
    \/ Set_Receiving
    \/ Emit_Receiving
    \/ Exit_Conn
    \/ Clear_Socket
    \/ Set_Disconnected
    \/ Emit_Disconnected

FairSpec == Spec /\ WF_vars(tcp_server_thread_running)

-----------------------------------------------------------------------------
(* The device's reading of what send_command wrote: bytes.decode, then a   *)
(* JSON object whose values are strings or integers                        *)

Decode(bytes) == [i \in 1..Len(bytes) |-> Chr(bytes[i])]

RECURSIVE SkipSpaces(_, _)
SkipSpaces(t, i) ==
    IF i <= Len(t) /\ t[i] = " " THEN SkipSpaces(t, i + 1) ELSE i

Failed == [ok |-> FALSE, val |-> "", next |-> 0]

\* The characters after an opening quote, up to the closing quote
RECURSIVE ReadChars(_, _, _)
ReadChars(t, i, acc) ==
    IF i > Len(t) \/ t[i] = "\\" THEN Failed
    ELSE IF t[i] = "\"" THEN [ok |-> TRUE, val |-> acc, next |-> i + 1]
    ELSE ReadChars(t, i + 1, acc \o t[i])

RECURSIVE ReadDigits(_, _, _)
ReadDigits(t, i, acc) ==
    IF i <= Len(t) /\ IsDigit(t[i])
    THEN ReadDigits(t, i + 1, 10 * acc + DigitVal(t[i]))
    ELSE [ok |-> TRUE, val |-> acc, next |-> i]

ReadValue(t, i) ==
    IF i > Len(t) THEN Failed
    ELSE IF t[i] = "\"" THEN ReadChars(t, i + 1, "")
    ELSE IF t[i] = "-" /\ i < Len(t) /\ IsDigit(t[i + 1])
         THEN LET r == ReadDigits(t, i + 1, 0)
              IN  [ok |-> TRUE, val |-> 0 - r.val, next |-> r.next]
    ELSE IF IsDigit(t[i]) THEN ReadDigits(t, i, 0)
    ELSE Failed

NotJson == [ok |-> FALSE, obj |-> EmptyDict]

\* The members of an object, from position i, added to obj
RECURSIVE ReadMembers(_, _, _)
ReadMembers(t, i, obj) ==
    LET k == IF i <= Len(t) /\ t[i] = "\"" THEN ReadChars(t, i + 1, "")
             ELSE Failed
        c == IF k.ok THEN SkipSpaces(t, k.next) ELSE 0
        v == IF k.ok /\ c <= Len(t) /\ t[c] = ":"
             THEN ReadValue(t, SkipSpaces(t, c + 1)) ELSE Failed
        e == IF v.ok THEN SkipSpaces(t, v.next) ELSE 0
        added == IF v.ok THEN (k.val :> v.val) @@ obj ELSE obj
    IN  IF ~v.ok \/ e > Len(t) THEN NotJson
        ELSE IF t[e] = "," THEN ReadMembers(t, SkipSpaces(t, e + 1), added)
        ELSE IF t[e] = "}" /\ SkipSpaces(t, e + 1) = Len(t) + 1
             THEN [ok |-> TRUE, obj |-> added]
        ELSE NotJson

JsonLoadsObject(t) ==
    LET i == SkipSpaces(t, 1)
    IN  IF i > Len(t) \/ t[i] # "{" THEN NotJson
        ELSE ReadMembers(t, SkipSpaces(t, i + 1), EmptyDict)


-----------------------------------------------------------------------------
(* Properties *)

\* The state tcp_server_thread is in when it is back at s.accept() after a
\* session: socket closed, handle cleared, Disconnected set and broadcast
\* exactly once since the session's last broadcast
TornDown ==
    /\ open = {}
    /\ stm32_client_socket = None
    /\ latest_data["status"] = Disconnected
    /\ emitted = latest_data
    /\ prev_status \notin {NoStatus, Disconnected}

\* C1: at most one accepted device socket is open at any time, and
\* whenever the thread is at s.accept() no socket is open, the handle is
\* None, and the status is Disconnected (AwaitingDevice before the first
\* session) and has been broadcast.
C1_SingleSession ==
    /\ Cardinality(open) <= 1
    /\ pc = "accept" =>
          /\ open = {}
          /\ stm32_client_socket = None
          /\ emitted = latest_data
          /\ latest_data["status"] =
                IF had_session THEN Disconnected ELSE AwaitingDevice

\* A second connection has just been accepted
C1_Witness ==
    /\ pc = "store"
    /\ Cardinality(open) = 1
    /\ latest_data["status"] = Disconnected

\* C2: a request that ends having found stm32_client_socket None, at line
\* 106 or at line 137, is answered NotConnected and has made no socket
\* write.
C2_NotConnectedOnly ==
    (req_pc = "idle" /\ response # "none" /\ sock_seen = None) =>
        (response = NotConnected /\ sent = <<>>)

\* C3: a received chunk that is not a JSON object (undecodable bytes, text
\* that is not JSON, JSON of another type) changes neither latest_data nor
\* the last broadcast, leaves the socket open and the handle set, and the
\* thread reads again.
C3_MalformedIsIgnored ==
    [][ ( \/ (pc = "recv" /\ pc' # "recv" /\ data'.kind = "badutf8")
          \/ (pc = "loads" /\ pc' # "loads"
                /\ data.kind \in {"badjson", "scalar", "array"}) )
        => ( /\ pc' = "recv"
             /\ UNCHANGED <<latest_data, emitted, prev_status, open,
                            stm32_client_socket>> ) ]_vars

\* A request body that lacks rate or cycles, or holds a value int() does
\* not accept, or holds a negative integer
InvalidRequest(b) ==
    \/ b.kind # "object"
    \/ \E k \in {"rate", "cycles"} :
          \/ k \notin DOMAIN b.fields
          \/ ~py_int(Get(b.fields, k)).ok
          \/ py_int(Get(b.fields, k)).n < 0

\* C4: a request with an invalid body is answered with a client error
\* (Rejected; NotConnected is the other 400 answer) and makes no socket
\* write.
C4_InvalidIsRejected ==
    (req_pc = "idle" /\ response # "none" /\ InvalidRequest(req_body)) =>
        (response \in {"Rejected", NotConnected} /\ sent = <<>>)

\* The fields every update() call so far has applied
EverSent == UNION {DOMAIN merged[i] : i \in 1..Len(merged)}
LastCarrier(k) ==
    CHOOSE i \in 1..Len(merged) :
        /\ k \in DOMAIN merged[i]
        /\ \A j \in (i + 1)..Len(merged) : k \notin DOMAIN merged[j]

\* C5: the keys of latest_data are the initial keys and every key a frame
\* has carried, and every key but status holds the value of the last frame
\* that carried it (its initial value if none did).
C5_UnionOfKeysLatestValue ==
    /\ DOMAIN latest_data = DOMAIN latest_data_initial \cup EverSent
    /\ \A k \in DOMAIN latest_data \ {"status"} :
          latest_data[k] = IF k \in EverSent THEN merged[LastCarrier(k)][k]
                           ELSE latest_data_initial[k]

\* Two frames have been merged and the second overwrote a field of the
\* first
C5_Witness ==
    /\ Len(merged) >= 2
    /\ \E k \in DOMAIN merged[1] \cap DOMAIN merged[2] :
          merged[1][k] # merged[2][k]
    /\ DOMAIN latest_data # DOMAIN latest_data_initial

EmitPcs ==
    {"emit_listening", "emit_failed", "emit_connected", "emit_receiving",
     "emit_disconnected"}

\* C6: no second change of latest_data is made while one is still not
\* broadcast, and every broadcast carries latest_data and follows exactly
\* one change that was not yet broadcast.
C6_OnePublishPerMutation ==
    /\ [](unpublished <= 1)
    /\ [][ (pc \in EmitPcs /\ pc' # pc) =>
              (unpublished = 1 /\ emitted' = latest_data) ]_vars

\* C7: when the session's read has ended the thread reaches s.accept()
\* again, and there the socket is closed, the handle is None, the status
\* is Disconnected and it has been broadcast exactly once; the thread never
\* ends once a connection has been accepted.
C7_TeardownThenAccept ==
    /\ []((pc = "accept" /\ had_session) => TornDown)
    /\ [](had_session => pc # "done")
    /\ [][(pc = "exit_conn") => (pc' \in {"exit_conn", "clear_socket"})]_vars
    /\ (pc = "exit_conn") ~> (pc = "accept")

\* The read of a session has ended and the thread is back at accept
C7_Witness ==
    /\ pc = "accept"
    /\ had_session
    /\ conn \notin open
    /\ TornDown

IsStartupFailed(st) == \E e \in BindErrors : st = StartupFailed(e)

\* C8: once bind has failed the status is StartupFailed and never changes,
\* no connection is accepted, bind is not tried again, the thread ends, and
\* when it has ended exactly one broadcast has been made, of that status.
C8_BindFailureIsFinal ==
    /\ [](pc \in {"emit_failed", "done"} =>
             ( /\ IsStartupFailed(latest_data["status"])
               /\ open = {}
               /\ stm32_client_socket = None
               /\ ~had_session ))
    /\ [](pc = "done" =>
             (emitted = latest_data /\ prev_status = NoStatus))
    /\ [][(pc \in {"emit_failed", "done"}) =>
             (pc' \in {"emit_failed", "done"} /\ UNCHANGED latest_data)]_vars
    /\ [][(pc = "done") =>
             (pc' = "done" /\ UNCHANGED <<emitted, prev_status>>)]_vars
    /\ (pc = "emit_failed") ~> (pc = "done")

\* The thread has ended after a failed bind, and a request has been served
C8_Witness ==
    /\ pc = "done"
    /\ response = NotConnected

\* A request body whose rate and cycles are non-negative JSON integers
ValidRequest(b) ==
    /\ b.kind = "object"
    /\ \A k \in {"rate", "cycles"} :
          /\ k \in DOMAIN b.fields
          /\ b.fields[k].t = "int"
          /\ b.fields[k].n >= 0

\* C9: a request with valid rate r and cycles c that is answered Ack has
\* made exactly one socket write, to the socket stm32_client_socket named
\* at the write, and the bytes written are JSON text of exactly
\* {"cmd": "config", "rate": r, "cycles": c}.
C9_CommandRoundTrip ==
    (req_pc = "idle" /\ response = Ack /\ ValidRequest(req_body)) =>
        /\ Len(sent) = 1
        /\ sent[1].ok
        /\ sent[1].sock = sock_seen
        /\ JsonLoadsObject(Decode(sent[1].bytes)) =
              [ok |-> TRUE,
               obj |-> ("cmd" :> "config")
                       @@ ("rate" :> req_body.fields["rate"].n)
                       @@ ("cycles" :> req_body.fields["cycles"].n)]

\* {rate: 10, cycles: 5} has been acknowledged
C9_Witness ==
    /\ req_pc = "idle"
    /\ response = Ack
    /\ req_body = JsonObject([rate |-> IntV(10), cycles |-> IntV(5)])
    /\ Len(sent) = 1

\* C10: every request ends with one of the four answers Ack, Rejected,
\* NotConnected, TransportError.
C10_AlwaysAnswered ==
    response \in {"none", Ack, "Rejected", NotConnected, TransportError}

IsConnected(st) == \E a \in Addrs : st = Connected(a)

\* C11: from s.accept() returning to the Connected broadcast nothing is
\* read and nothing is merged; that broadcast carries latest_data with
\* status Connected(addr) and is the only one since the previous session
\* (the broadcast before it carries AwaitingDevice or Disconnected); and
\* the thread reads only after it.
C11_ConnectedBeforeRead ==
    /\ [][(pc \in {"store", "set_connected", "emit_connected"}) =>
             UNCHANGED <<merged, data>>]_vars
    /\ [][(pc = "emit_connected" /\ pc' # pc) =>
             ( /\ pc' = "recv"
               /\ unpublished = 1
               /\ emitted' = latest_data
               /\ emitted'["status"] = Connected(addr)
               /\ prev_status' \in {AwaitingDevice, Disconnected} )]_vars
    /\ [](pc \in {"recv", "loads"} =>
             \/ emitted["status"] = Connected(addr)
             \/ (emitted["status"] = Receiving
                   /\ prev_status \in {Connected(addr), Receiving}))

\* A second device, from the other address, has connected and nothing has
\* been read from it yet
C11_Witness ==
    /\ pc = "recv"
    /\ data = NoData
    /\ emitted["status"] = Connected("192.168.4.3")
    /\ prev_status = Disconnected

\* The broadcast of line 76 for the frame in data, given the broadcast
\* before it: every key in keys has the frame's value, every other key but
\* status its earlier value, and the status is Receiving
FramePublished(before, frame, after, keys) ==
    /\ DOMAIN after = DOMAIN before \cup DOMAIN frame
    /\ \A k \in keys : after[k] = frame[k]
    /\ \A k \in DOMAIN before \ (DOMAIN frame \cup {"status"}) :
          after[k] = before[k]
    /\ after["status"] = Receiving

\* C12 as stated: the snapshot broadcast for a frame holds every field of
\* the frame with the frame's value, the earlier fields the frame lacks
\* with their earlier values, and status Receiving.
C12_FramePublishedWithAllFields ==
    [][(pc = "emit_receiving" /\ pc' # pc) =>
          FramePublished(emitted, data.fields, emitted', DOMAIN data.fields)]_vars

\* C12, amended: the snapshot broadcast for a frame holds every field of
\* the frame other than status with the frame's value, the earlier fields
\* the frame lacks with their earlier values, and status Receiving.
C12_FramePublished ==
    [][(pc = "emit_receiving" /\ pc' # pc) =>
          FramePublished(emitted, data.fields, emitted',
                         DOMAIN data.fields \ {"status"})]_vars

\* {DC: 3.3} and then {status: dev, temp: 21} have been merged and the
\* second broadcast made
C12_Witness ==
    /\ pc = "recv"
    /\ Len(merged) = 2
    /\ "status" \in DOMAIN merged[2]
    /\ emitted["status"] = Receiving
    /\ emitted["DC"] = "3.3"
    /\ emitted["temp"] = "21"

\* C14: a step of the send_command handler changes neither latest_data nor
\* stm32_client_socket, broadcasts nothing, closes no socket and does not
\* move tcp_server_thread.
C14_DispatchChangesNothing ==
    [][(req_vars' # req_vars) =>
          UNCHANGED <<latest_data, stm32_client_socket, emitted, prev_status,
                      unpublished, open, pc>>]_vars

\* A write has failed and the session is still up
C14_Witness ==
    /\ req_pc = "idle"
    /\ response = TransportError
    /\ sent # <<>>
    /\ stm32_client_socket \in open
    /\ pc = "recv"

\* C15: no request handler performs an operation on the device socket.
C15_OnlyTcpThreadTouchesSocket ==
    sent = <<>>

IsLifecycle(st) ==
    \/ st \in {AwaitingDevice, Receiving, Disconnected}
    \/ IsConnected(st)
    \/ IsStartupFailed(st)

\* C17: of two consecutive broadcasts the statuses follow the lifecycle:
\* the first broadcast carries AwaitingDevice or StartupFailed and no later
\* one does; Connected follows AwaitingDevice or Disconnected; Receiving
\* follows Connected or Receiving; Disconnected follows Connected or
\* Receiving.
C17_StatusLifecycle ==
    emitted # NoEmit =>
        LET st == emitted["status"]
        IN  /\ IsLifecycle(st)
            /\ (prev_status = NoStatus) <=>
                   (st = AwaitingDevice \/ IsStartupFailed(st))
            /\ ~IsStartupFailed(prev_status)
            /\ IsConnected(st) => prev_status \in {AwaitingDevice, Disconnected}
            /\ st = Receiving =>
                   (IsConnected(prev_status) \/ prev_status = Receiving)
            /\ st = Disconnected =>
                   (IsConnected(prev_status) \/ prev_status = Receiving)

\* Connected has been broadcast after Disconnected
C17_Witness ==
    /\ emitted # NoEmit
    /\ IsConnected(emitted["status"])
    /\ prev_status = Disconnected

\* C19: whenever tcp_server_thread is about to broadcast, the status is
\* Connected or Receiving exactly if stm32_client_socket is set, and
\* AwaitingDevice, Disconnected or StartupFailed exactly if it is None.
C19_StatusMatchesHandle ==
    pc \in EmitPcs =>
        LET st == latest_data["status"]
        IN  /\ (IsConnected(st) \/ st = Receiving)
                  <=> (stm32_client_socket # None)
            /\ (st \in {AwaitingDevice, Disconnected} \/ IsStartupFailed(st))
                  <=> (stm32_client_socket = None)

\* Disconnected is about to be broadcast after a session that received data
C19_Witness ==
    /\ pc = "emit_disconnected"
    /\ stm32_client_socket = None
    /\ prev_status = Connected("192.168.4.2")
    /\ emitted["status"] = Receiving

\* C20: every broadcast carries one of the five lifecycle statuses, and the
\* broadcast that follows a merge carries Receiving whatever the frame
\* holds.
C20_PublishedStatusIsLifecycle ==
    /\ [](emitted # NoEmit => IsLifecycle(emitted["status"]))
    /\ [][(pc = "emit_receiving" /\ pc' # pc) =>
             emitted'["status"] = Receiving]_vars

\* A frame that carries status "dev" has been merged and broadcast
C20_Witness ==
    /\ pc = "recv"
    /\ emitted # NoEmit
    /\ emitted["status"] = Receiving
    /\ \E i \in 1..Len(merged) :
          "status" \in DOMAIN merged[i] /\ merged[i]["status"] = "dev"
    /\ latest_data = emitted

\* C13: a client that connects is sent one update_data event, whose payload
\* is latest_data as it is at that moment, and nothing else changes.
C13_SubscribeDeliversSnapshot ==
    [][(delivered' # delivered) =>
          ( /\ Len(delivered') = 1
            /\ delivered'[1] = latest_data
            /\ UNCHANGED <<latest_data, stm32_client_socket, emitted>> )]_vars

\* A client has connected after the device was disconnected
C13_Witness ==
    /\ pc = "accept"
    /\ had_session
    /\ delivered = <<latest_data>>
    /\ latest_data["status"] = Disconnected

\* C16: whenever tcp_server_thread waits for the next read and no message
\* is partly read, what update() has applied is what it would have applied
\* had every message the devices sent been read whole and alone.
C16_MergedAsSent ==
    (pc = "recv" /\ pending = NoPending) => merged = streamed

\* The frame in data is merged (line 72), it changed latest_data, and the
\* status is not yet Receiving (line 73)
MergedNotYetReceiving ==
    /\ pc = "set_receiving"
    /\ latest_data # emitted
    /\ latest_data["status"] # Receiving

\* C18: no client that connects is sent latest_data with a frame merged and
\* the status not yet Receiving.
C18_SubscriberSeesPublished ==
    [][(delivered' # delivered) => ~MergedNotYetReceiving]_vars

====
